---- MODULE Spec2Model ----
(***************************************************************************)
(* devious_schema: inference of a type descriptor (TypeInfo) from JSON     *)
(* samples and rendering of the descriptor as pydantic model text.         *)
(*                                                                         *)
(* Text is modelled as a sequence of one-character strings, so that the    *)
(* casing functions and the derived class names are computed character by  *)
(* character.  A type annotation is modelled as its sequence of tokens.    *)
(***************************************************************************)
EXTENDS Naturals, Sequences, FiniteSets

VARIABLES root, merged, err, pc, schema

vars == <<root, merged, err, pc, schema>>

\* Number of samples handed to get_schema_from_strings in one run.
MaxSamples == 2

(***************************************************************************)
(* Characters                                                              *)
(***************************************************************************)
LowerChars ==
    <<"a","b","c","d","e","f","g","h","i","j","k","l","m",
      "n","o","p","q","r","s","t","u","v","w","x","y","z">>

UpperChars ==
    <<"A","B","C","D","E","F","G","H","I","J","K","L","M",
      "N","O","P","Q","R","S","T","U","V","W","X","Y","Z">>

DigitChars == <<"0","1","2","3","4","5","6","7","8","9">>

IsLower(c) == \E i \in DOMAIN LowerChars : LowerChars[i] = c

IsUpper(c) == \E i \in DOMAIN UpperChars : UpperChars[i] = c

IsDigit(c) == \E i \in DOMAIN DigitChars : DigitChars[i] = c

\* str.lower() on one character
LowerOf(c) ==
    IF IsUpper(c)
    THEN LowerChars[CHOOSE i \in DOMAIN UpperChars : UpperChars[i] = c]
    ELSE c

\* str.upper() on one character
UpperOf(c) ==
    IF IsLower(c)
    THEN UpperChars[CHOOSE i \in DOMAIN LowerChars : LowerChars[i] = c]
    ELSE c

RECURSIVE Flatten(_)
Flatten(ss) == IF Len(ss) = 0 THEN <<>> ELSE Head(ss) \o Flatten(Tail(ss))

\* re.sub(r"([a-z0-9])([A-Z])", r"\1_\2", text); text.lower()
to_snake_case(text) ==
    LET piece(i) ==
            IF /\ i > 1
               /\ IsLower(text[i - 1]) \/ IsDigit(text[i - 1])
               /\ IsUpper(text[i])
            THEN <<"_", text[i]>>
            ELSE <<text[i]>>
        subbed == Flatten([i \in 1..Len(text) |-> piece(i)])
    IN  [i \in 1..Len(subbed) |-> LowerOf(subbed[i])]

\* text.split("_"): the parts between underscores, empty parts included
RECURSIVE SplitUnderscore(_, _)
SplitUnderscore(text, cur) ==
    IF Len(text) = 0 THEN <<cur>>
    ELSE IF Head(text) = "_"
         THEN <<cur>> \o SplitUnderscore(Tail(text), <<>>)
         ELSE SplitUnderscore(Tail(text), Append(cur, Head(text)))

\* "".join(part[0].upper() + part[1:] for part in text.split("_") if part)
to_pascal_case(text) ==
    LET parts == SplitUnderscore(text, <<>>)
        cap(p) == IF Len(p) = 0 THEN <<>> ELSE <<UpperOf(p[1])>> \o Tail(p)
    IN  Flatten([i \in 1..Len(parts) |-> cap(parts[i])])

(***************************************************************************)
(* Type descriptor                                                         *)
(***************************************************************************)
\* TypeInfo(name=...): list_items is <<>> for None and <<child>> otherwise;
\* dict_keys is the insertion-ordered mapping, a sequence of [key, info].
TypeInfo(name) ==
    [name |-> name,
     allow_str |-> FALSE, allow_int |-> FALSE, allow_float |-> FALSE,
     allow_none |-> FALSE, allow_dict |-> FALSE, allow_list |-> FALSE,
     optional |-> FALSE,
     list_items |-> <<>>,
     dict_keys |-> <<>>]

\* key in type_info.dict_keys
HasKey(dict_keys, key) == \E i \in DOMAIN dict_keys : dict_keys[i].key = key

KeyIndex(dict_keys, key) == CHOOSE i \in DOMAIN dict_keys : dict_keys[i].key = key

(***************************************************************************)
(* Samples: decoded JSON values.  kind is the runtime kind; elems holds    *)
(* the entries of a dict (key, val) or the elements of a list (key = <<>>) *)
(***************************************************************************)
Scalar(kind) == [kind |-> kind, elems |-> <<>>]

ListOf(items) ==
    [kind |-> "list",
     elems |-> [i \in 1..Len(items) |-> [key |-> <<>>, val |-> items[i]]]]

DictOf(entries) == [kind |-> "dict", elems |-> entries]

Entry(key, val) == [key |-> key, val |-> val]

\* key in input_data
InputHasKey(input_data, key) ==
    \E i \in DOMAIN input_data.elems : input_data.elems[i].key = key

(***************************************************************************)
(* Merge engine.  Every operator returns [ti, err]: the descriptor as the  *)
(* call left it (mutation is in place, so a raised exception keeps what    *)
(* was written before it) and the exception raised, "none" if none.        *)
(***************************************************************************)
RECURSIVE _parse_value(_, _, _)
RECURSIVE parse_dict(_, _)
RECURSIVE DictLoop(_, _, _)
RECURSIVE ListLoop(_, _, _)

\* ScalarFlag with the flags assigned instead of widened: the kind seen last
\* replaces the scalar kinds seen before
ScalarFlag_Overwrite(kind, target_type) ==
    [target_type EXCEPT !.allow_str = (kind = "str"),
                        !.allow_int = (kind = "int"),
                        !.allow_float = (kind = "float"),
                        !.allow_none = (kind = "none")]

\* the scalar branches of _parse_value
ScalarFlag(kind, target_type) ==
    CASE kind = "str"   -> [target_type EXCEPT !.allow_str = TRUE]
      [] kind = "int"   -> [target_type EXCEPT !.allow_int = TRUE]
      [] kind = "float" -> [target_type EXCEPT !.allow_float = TRUE]
      [] kind = "none"  -> [target_type EXCEPT !.allow_none = TRUE]

\* the exception of _parse_value's else branch: the message reads the loop
\* variable x of the list branch, which is unbound there
UnexpectedItemError == "UnboundLocalError"

\* the exception of parse's fall-through
UnexpectedInputError == "TypeError"

\* EnsureListItems without the "is None" test: a new child on every list
EnsureListItems_Fresh(target_type, item_name) ==
    [target_type EXCEPT !.list_items = <<TypeInfo(item_name)>>]

\* list_items = TypeInfo(name=...) when it is None
EnsureListItems(target_type, item_name) ==
    IF Len(target_type.list_items) = 0
    THEN [target_type EXCEPT !.list_items = <<TypeInfo(item_name)>>]
    ELSE target_type

\* for x in value: _parse_value(x, list_items)
ListLoop(elems, i, items) ==
    IF i > Len(elems) THEN [ti |-> items, err |-> "none"]
    ELSE LET r == _parse_value(elems[i].val, items, <<>>)
         IN  IF r.err # "none" THEN r ELSE ListLoop(elems, i + 1, r.ti)

_parse_value(value, target_type, key_name) ==
    IF value.kind \in {"str", "int", "float", "none"}
    THEN [ti |-> ScalarFlag(value.kind, target_type), err |-> "none"]
    ELSE IF value.kind = "dict"
    THEN parse_dict(value, [target_type EXCEPT !.allow_dict = TRUE])
    ELSE IF value.kind = "list"
    THEN LET t1 == [target_type EXCEPT !.allow_list = TRUE]
             t2 == EnsureListItems(t1,
                       IF Len(key_name) > 0
                       THEN key_name \o <<"_","i","t","e","m">>
                       ELSE t1.name \o <<"I","t","e","m">>)
             r  == ListLoop(value.elems, 1, t2.list_items[1])
         IN  [ti |-> [t2 EXCEPT !.list_items = <<r.ti>>], err |-> r.err]
    ELSE [ti |-> target_type, err |-> UnexpectedItemError]

\* type_info.dict_keys[key] = TypeInfo(name=...) when key is new
EnsureKey(type_info, key) ==
    IF HasKey(type_info.dict_keys, key) THEN type_info
    ELSE [type_info EXCEPT !.dict_keys =
              Append(@, [key |-> key,
                         info |-> TypeInfo(type_info.name \o to_pascal_case(key))])]

\* for key, value in input_data.items(): ...
DictLoop(elems, i, type_info) ==
    IF i > Len(elems) THEN [ti |-> type_info, err |-> "none"]
    ELSE LET key == elems[i].key
             t1  == EnsureKey(type_info, key)
             k   == KeyIndex(t1.dict_keys, key)
             r   == _parse_value(elems[i].val, t1.dict_keys[k].info, key)
             t2  == [t1 EXCEPT !.dict_keys[k].info = r.ti]
         IN  IF r.err # "none" THEN [ti |-> t2, err |-> r.err]
             ELSE DictLoop(elems, i + 1, t2)

\* MarkMissing with the marking loop left out
MarkMissing_Never(dict_keys, input_data) == dict_keys

\* "Mark missing keys as optional"
MarkMissing(dict_keys, input_data) ==
    [i \in DOMAIN dict_keys |->
        IF InputHasKey(input_data, dict_keys[i].key) THEN dict_keys[i]
        ELSE [dict_keys[i] EXCEPT !.info.optional = TRUE]]

parse_dict(input_data, type_info) ==
    LET r == DictLoop(input_data.elems, 1, type_info)
    IN  IF r.err # "none" THEN r
        ELSE [ti |-> [r.ti EXCEPT !.dict_keys = MarkMissing(@, input_data)],
              err |-> "none"]

parse_list(input_data, type_info) ==
    IF Len(input_data.elems) = 0
    THEN [ti |-> [type_info EXCEPT !.allow_list = TRUE], err |-> "none"]
    ELSE LET t1 == EnsureListItems(type_info,
                       type_info.name \o <<"I","t","e","m">>)
             r  == ListLoop(input_data.elems, 1, t1.list_items[1])
         IN  [ti |-> [t1 EXCEPT !.list_items = <<r.ti>>], err |-> r.err]

parse(input_data, type_info) ==
    IF input_data.kind = "dict" THEN parse_dict(input_data, type_info)
    ELSE IF input_data.kind = "list" THEN parse_list(input_data, type_info)
    ELSE [ti |-> type_info, err |-> UnexpectedInputError]

(***************************************************************************)
(* Annotation renderer.  An annotation is a sequence of tokens; a token is *)
(* [t, name]: t is the token's text ("str", "|", "list[", "]", ...) and a  *)
(* reference to a generated class is t = "ref" with the class name.        *)
(* models is the list of emitted definitions: a record class               *)
(* [kind |-> "class", name, fields] or the top-level binding               *)
(* [kind |-> "binding", name, fields] with its one "name: annotation".     *)
(***************************************************************************)
Tok(t) == [t |-> t, name |-> <<>>]

Ref(name) == [t |-> "ref", name |-> name]

\* " | ".join(type_parts)
RECURSIVE JoinUnion(_)
JoinUnion(parts) ==
    IF Len(parts) = 0 THEN <<>>
    ELSE IF Len(parts) = 1 THEN parts[1]
    ELSE parts[1] \o <<Tok("|")>> \o JoinUnion(Tail(parts))

\* ScalarParts with the int test ahead of the str test
ScalarParts_IntFirst(type_info) ==
    (IF type_info.allow_int THEN <<(<<Tok("int")>>)>> ELSE <<>>)
    \o (IF type_info.allow_str THEN <<(<<Tok("str")>>)>> ELSE <<>>)
    \o (IF type_info.allow_float THEN <<(<<Tok("float")>>)>> ELSE <<>>)
    \o (IF type_info.allow_none \/ type_info.optional
        THEN <<(<<Tok("None")>>)>> ELSE <<>>)

\* the str / int / float / None appends of build_type_annotation
ScalarParts(type_info) ==
    (IF type_info.allow_str THEN <<(<<Tok("str")>>)>> ELSE <<>>)
    \o (IF type_info.allow_int THEN <<(<<Tok("int")>>)>> ELSE <<>>)
    \o (IF type_info.allow_float THEN <<(<<Tok("float")>>)>> ELSE <<>>)
    \o (IF type_info.allow_none \/ type_info.optional
        THEN <<(<<Tok("None")>>)>> ELSE <<>>)

\* models.insert(0, dict_model)
InsertModel(models, dict_model) == <<dict_model>> \o models

\* the three returns of build_type_annotation
FinishAnnotation(type_parts) ==
    IF Len(type_parts) = 0 THEN <<Tok("Any")>>
    ELSE IF Len(type_parts) = 1 THEN type_parts[1]
    ELSE JoinUnion(type_parts)

\* field_config and the field line of generate_dict_model
FieldLine(field_name, field_type) ==
    [ident |-> to_snake_case(field_name),
     ann   |-> field_type,
     alias |-> IF to_snake_case(field_name) # field_name
               THEN <<field_name>> ELSE <<>>]

RECURSIVE build_type_annotation(_, _)
RECURSIVE generate_dict_model(_, _, _)
RECURSIVE FieldLoop(_, _, _, _)

build_type_annotation(type_info, models) ==
    LET p1 == ScalarParts(type_info)
        dict_class_name == to_pascal_case(type_info.name) \o <<"D","i","c","t">>
        d  == IF Len(type_info.dict_keys) > 0
              THEN LET g == generate_dict_model(type_info, dict_class_name, models)
                   IN  [parts  |-> Append(p1, <<Ref(dict_class_name)>>),
                        models |-> InsertModel(g.models, g.model)]
              ELSE IF type_info.allow_dict
              THEN [parts |-> Append(p1, <<Tok("dict[str, Any]")>>), models |-> models]
              ELSE [parts |-> p1, models |-> models]
        l  == IF Len(type_info.list_items) > 0
              THEN LET b == build_type_annotation(type_info.list_items[1], d.models)
                   IN  [parts  |-> Append(d.parts,
                                      <<Tok("list[")>> \o b.ann \o <<Tok("]")>>),
                        models |-> b.models]
              ELSE IF type_info.allow_list
              THEN [parts  |-> Append(d.parts, <<Tok("list["), Tok("Any"), Tok("]")>>),
                    models |-> d.models]
              ELSE d
    IN  [ann |-> FinishAnnotation(l.parts), models |-> l.models]

\* for field_name, field_wrapper in type_info.dict_keys.items(): ...
FieldLoop(dict_keys, i, lines, models) ==
    IF i > Len(dict_keys) THEN [lines |-> lines, models |-> models]
    ELSE LET b == build_type_annotation(dict_keys[i].info, models)
         IN  FieldLoop(dict_keys, i + 1,
                       Append(lines, FieldLine(dict_keys[i].key, b.ann)),
                       b.models)

generate_dict_model(type_info, model_name, models) ==
    LET f == FieldLoop(type_info.dict_keys, 1, <<>>, models)
    IN  [model  |-> [kind |-> "class", name |-> to_pascal_case(model_name),
                     fields |-> f.lines],
         models |-> f.models]

\* f"{to_snake_case(type_info.name)}: {list_type}"
Binding(type_info, list_type) ==
    [kind |-> "binding", name |-> to_snake_case(type_info.name),
     fields |-> <<[ident |-> to_snake_case(type_info.name),
                   ann |-> list_type, alias |-> <<>>]>>]

\* the text after the two import lines: the emitted definitions in order
generate_pydantic_schema(type_info, class_name) ==
    IF Len(type_info.dict_keys) > 0 /\ Len(type_info.list_items) > 0
    THEN LET g == generate_dict_model(type_info, class_name, <<>>)
             b == build_type_annotation(type_info, g.models)
         IN  Append(b.models, Binding(type_info, b.ann))
    ELSE IF Len(type_info.list_items) > 0
    THEN LET b == build_type_annotation(type_info, <<>>)
         IN  Append(b.models, Binding(type_info, b.ann))
    ELSE IF Len(type_info.dict_keys) > 0
    THEN LET g == generate_dict_model(type_info, class_name, <<>>)
         IN  Append(g.models, g.model)
    ELSE <<>>

(***************************************************************************)
(* Inputs                                                                  *)
(***************************************************************************)
\* root_name, as in the tests
RootName == <<"R","o","o","t">>

KeyA == <<"a">>

KeyUnderA == <<"_","a">>

KeyCamel == <<"a","B">>

Str == Scalar("str")

Int == Scalar("int")

Float == Scalar("float")

None == Scalar("none")

\* a value of a kind JSON does not have (a tuple, a set, bytes)
Other == Scalar("other")

D1(k, v) == DictOf(<<Entry(k, v)>>)

D2(k1, v1, k2, v2) == DictOf(<<Entry(k1, v1), Entry(k2, v2)>>)

\* The samples a run draws from: both root kinds, empty and non-empty, every
\* scalar kind, keys that need an alias, nesting down to three levels.
Samples ==
    { ListOf(<<>>), DictOf(<<>>),
      ListOf(<<Int>>), ListOf(<<Str>>), ListOf(<<Int, Str>>),
      ListOf(<<Float, None>>),
      ListOf(<<Other>>), ListOf(<<ListOf(<<Int>>)>>),
      ListOf(<<D1(KeyA, Int), D1(KeyCamel, Str)>>),
      D1(KeyA, Str), D1(KeyA, Int), D1(KeyUnderA, Str), D1(KeyCamel, Float),
      D2(KeyA, Int, KeyCamel, None),
      D1(KeyA, DictOf(<<>>)), D1(KeyA, ListOf(<<>>)),
      D1(KeyA, ListOf(<<Int>>)),
      D1(KeyA, D1(KeyA, Int)),
      D1(KeyA, D1(KeyA, D1(KeyA, Str))),
      D2(KeyA, D1(KeyA, Int), KeyUnderA, D1(KeyA, Str)),
      D2(KeyA, D1(KeyA, ListOf(<<D1(KeyA, Int)>>)),
         KeyCamel, D1(KeyA, ListOf(<<D1(KeyA, Str)>>))),
      D2(KeyCamel, Str, KeyA, Other),
      Other }

(***************************************************************************)
(* get_schema_from_strings: one descriptor, parse once per sample in input *)
(* order, then generate_pydantic_schema.  merged is the prefix of raw_data *)
(* consumed so far.  An exception ends the run.                            *)
(***************************************************************************)
Init ==
    /\ root = TypeInfo(RootName)
    /\ merged = <<>>
    /\ err = "none"
    /\ pc = "merging"
    /\ schema = <<>>

\* one iteration of "for data in raw_data: parse(data, root)"
Merge(data) ==
    /\ pc = "merging"
    /\ Len(merged) < MaxSamples
    /\ LET r == parse(data, root)
       IN  /\ root' = r.ti
           /\ err' = r.err
           /\ pc' = IF r.err = "none" THEN "merging" ELSE "raised"
    /\ merged' = Append(merged, data)
    /\ UNCHANGED schema

\* return generate_pydantic_schema(root, root_name)
Generate ==
    /\ pc = "merging"
    /\ schema' = generate_pydantic_schema(root, RootName)
    /\ pc' = "done"
    /\ UNCHANGED <<root, merged, err>>

Next ==
    \/ \E data \in Samples : Merge(data)
    \/ Generate

Spec == Init /\ [][Next]_vars

(***************************************************************************)
(* Properties                                                              *)
(***************************************************************************)
\* every descriptor of the tree under ti, ti included
RECURSIVE Nodes(_)
Nodes(ti) ==
    {ti}
    \cup UNION {Nodes(ti.dict_keys[i].info) : i \in DOMAIN ti.dict_keys}
    \cup (IF Len(ti.list_items) > 0 THEN Nodes(ti.list_items[1]) ELSE {})

\* the alternatives of an annotation: its parts between the "|" tokens that
\* are not inside a list[...]
RECURSIVE SplitTopFrom(_, _, _, _)
SplitTopFrom(ann, i, depth, cur) ==
    IF i > Len(ann) THEN <<cur>>
    ELSE IF ann[i].t = "|" /\ depth = 0
         THEN <<cur>> \o SplitTopFrom(ann, i + 1, 0, <<>>)
    ELSE IF ann[i].t = "list["
         THEN SplitTopFrom(ann, i + 1, depth + 1, Append(cur, ann[i]))
    ELSE IF ann[i].t = "]"
         THEN SplitTopFrom(ann, i + 1, depth - 1, Append(cur, ann[i]))
    ELSE SplitTopFrom(ann, i + 1, depth, Append(cur, ann[i]))

Alternatives(ann) == SplitTopFrom(ann, 1, 0, <<>>)

\* the place of an alternative in the fixed order
Rank(alt) ==
    CASE alt[1].t = "str" -> 1
      [] alt[1].t = "int" -> 2
      [] alt[1].t = "float" -> 3
      [] alt[1].t = "None" -> 4
      [] alt[1].t \in {"ref", "dict[str, Any]"} -> 5
      [] alt[1].t = "list[" -> 6
      [] OTHER -> 0

Done == pc = "done"

\* C1: in the generated text every record class is defined before every
\* class or top-level binding with a field annotation that references it.
C1_ChildrenBeforeParents ==
    Done =>
        \A j \in DOMAIN schema : \A f \in DOMAIN schema[j].fields :
            \A t \in DOMAIN schema[j].fields[f].ann :
                LET tok == schema[j].fields[f].ann[t]
                IN  tok.t = "ref" =>
                        \A i \in DOMAIN schema :
                            (schema[i].kind = "class" /\ schema[i].name = tok.name)
                                => i < j

\* what C2 says of one descriptor and its annotation
AnnotationInFixedOrder(ti) ==
    LET ann  == build_type_annotation(ti, <<>>).ann
        alts == Alternatives(ann)
        has(alt) == \E i \in DOMAIN alts : alts[i] = alt
        none == /\ ~ti.allow_str /\ ~ti.allow_int /\ ~ti.allow_float
                /\ ~ti.allow_none /\ ~ti.optional /\ ~ti.allow_dict
                /\ ~ti.allow_list
                /\ Len(ti.dict_keys) = 0 /\ Len(ti.list_items) = 0
        className == to_pascal_case(ti.name) \o <<"D","i","c","t">>
    IN  IF none THEN ann = <<Tok("Any")>>
        ELSE /\ \A i \in DOMAIN alts : Len(alts[i]) > 0 /\ Rank(alts[i]) > 0
             /\ \A i, j \in DOMAIN alts : i < j => Rank(alts[i]) < Rank(alts[j])
             /\ has(<<Tok("str")>>) <=> ti.allow_str
             /\ has(<<Tok("int")>>) <=> ti.allow_int
             /\ has(<<Tok("float")>>) <=> ti.allow_float
             /\ has(<<Tok("None")>>) <=> (ti.allow_none \/ ti.optional)
             /\ has(<<Ref(className)>>) <=> Len(ti.dict_keys) > 0
             /\ has(<<Tok("dict[str, Any]")>>)
                    <=> (Len(ti.dict_keys) = 0 /\ ti.allow_dict)
             /\ (\E i \in DOMAIN alts : Rank(alts[i]) = 6)
                    <=> (Len(ti.list_items) > 0 \/ ti.allow_list)
             /\ Len(ti.list_items) > 0 =>
                    has(<<Tok("list[")>>
                        \o build_type_annotation(ti.list_items[1], <<>>).ann
                        \o <<Tok("]")>>)
             /\ (Len(ti.list_items) = 0 /\ ti.allow_list) =>
                    has(<<Tok("list["), Tok("Any"), Tok("]")>>)

\* C2: build_type_annotation gives the alternatives in the order str, int,
\* float, None, class reference or dict[str, Any], list[...]; Any when there
\* is none, the alternative bare when there is one, a union in that order
\* when there are several.
C2_AnnotationOrder == \A ti \in Nodes(root) : AnnotationInFixedOrder(ti)

\* C2's case: a position that saw an integer, then a string, is "str | int"
C2_Witness ==
    /\ merged = <<D1(KeyA, Int), D1(KeyA, Str)>>
    /\ err = "none"
    /\ build_type_annotation(root.dict_keys[1].info, <<>>).ann
           = <<Tok("str"), Tok("|"), Tok("int")>>

AllSamplesOf(kind) == \A i \in DOMAIN merged : merged[i].kind = kind

Last(seq) == seq[Len(seq)]

HasBinding == \E i \in DOMAIN schema : schema[i].kind = "binding"

HasClass(name) ==
    \E i \in DOMAIN schema : schema[i].kind = "class" /\ schema[i].name = name

\* one record class named by the root name, last, and no binding
PureObjectShape ==
    /\ Len(schema) > 0
    /\ Last(schema).kind = "class"
    /\ Last(schema).name = RootName
    /\ ~HasBinding

\* the binding "<snake_case(root name)>: list[X]" alone, and no root class
PureArrayShape ==
    /\ Len(schema) > 0
    /\ Last(schema).kind = "binding"
    /\ Last(schema).name = to_snake_case(RootName)
    /\ \A i \in 1..(Len(schema) - 1) : schema[i].kind = "class"
    /\ LET alts == Alternatives(Last(schema).fields[1].ann)
       IN  Len(alts) = 1 /\ Rank(alts[1]) = 6
    /\ ~HasClass(RootName)

\* a record class for the object alternative and, last, the binding typed
\* as the union of a reference to that class and list[X]
MixedShape ==
    /\ Len(schema) > 0
    /\ Last(schema).kind = "binding"
    /\ Last(schema).name = to_snake_case(RootName)
    /\ \A i \in 1..(Len(schema) - 1) : schema[i].kind = "class"
    /\ LET alts == Alternatives(Last(schema).fields[1].ann)
       IN  /\ Len(alts) = 2
           /\ Len(alts[1]) = 1 /\ alts[1][1].t = "ref"
           /\ HasClass(alts[1][1].name)
           /\ Rank(alts[2]) = 6

\* C3: for a non-empty sequence of root samples the generated text has the
\* pure-object shape when all samples were objects, the pure-array shape
\* when all were arrays, and the mixed shape when there were both.
C3_RootShapes ==
    (Done /\ Len(merged) > 0) =>
        IF AllSamplesOf("dict") THEN PureObjectShape
        ELSE IF AllSamplesOf("list") THEN PureArrayShape
        ELSE MixedShape

(***************************************************************************)
(* The values merged at one position, read off the samples themselves:     *)
(* vals is the sequence of values that reached a descriptor, in merge      *)
(* order; the values of key k and the list elements are what reached its   *)
(* children.                                                               *)
(***************************************************************************)
ObjectsIn(vals) == LET isDict(v) == v.kind = "dict" IN SelectSeq(vals, isDict)

ListsIn(vals) == LET isList(v) == v.kind = "list" IN SelectSeq(vals, isList)

ValueOfKey(obj, k) ==
    obj.elems[CHOOSE i \in DOMAIN obj.elems : obj.elems[i].key = k].val

RECURSIVE ValuesOfKey(_, _)
ValuesOfKey(objs, k) ==
    IF Len(objs) = 0 THEN <<>>
    ELSE (IF InputHasKey(Head(objs), k)
          THEN <<ValueOfKey(Head(objs), k)>> ELSE <<>>)
         \o ValuesOfKey(Tail(objs), k)

ElementsOf(lists) ==
    Flatten([i \in 1..Len(lists) |->
                [j \in 1..Len(lists[i].elems) |-> lists[i].elems[j].val]])

\* P(child descriptor, key, objects merged at the parent) at every key of
\* every object position under ti
RECURSIVE AtEveryKey(_, _, _)
AtEveryKey(P(_, _, _), ti, vals) ==
    /\ \A i \in DOMAIN ti.dict_keys :
           LET k == ti.dict_keys[i].key
               c == ti.dict_keys[i].info
           IN  /\ P(c, k, ObjectsIn(vals))
               /\ AtEveryKey(P, c, ValuesOfKey(ObjectsIn(vals), k))
    /\ Len(ti.list_items) > 0 =>
           AtEveryKey(P, ti.list_items[1], ElementsOf(ListsIn(vals)))

EverAbsentIsOptional(c, k, objs) ==
    (\E j \in DOMAIN objs : ~InputHasKey(objs[j], k)) => c.optional

\* C4: after any sequence of merges, a key that was absent from at least one
\* object merged at its position, before or after the key was first seen,
\* is optional.
C4_EverAbsentOptional ==
    err = "none" => AtEveryKey(EverAbsentIsOptional, root, merged)

OptionalBookkeeping(c, k, objs) ==
    /\ (\E i, j \in DOMAIN objs :
            i < j /\ InputHasKey(objs[i], k) /\ ~InputHasKey(objs[j], k))
           => c.optional
    /\ (\A j \in DOMAIN objs : InputHasKey(objs[j], k))
           => /\ ~c.optional
              /\ ~c.allow_none =>
                     \A a \in DOMAIN Alternatives(build_type_annotation(c, <<>>).ann) :
                         Alternatives(build_type_annotation(c, <<>>).ann)[a]
                             # <<Tok("None")>>

\* C5: a key already known at a position is optional once an object merged
\* there lacks it; a key present in every object merged there is not
\* optional, and its annotation has no None alternative on that account.
C5_OptionalBookkeeping ==
    err = "none" => AtEveryKey(OptionalBookkeeping, root, merged)

\* C5's case: {"a": 1, "aB": null} then {"a": "b"}: a is "str | int",
\* aB, missing from the second object, is optional
C5_Witness ==
    /\ Done
    /\ merged = <<D2(KeyA, Int, KeyCamel, None), D1(KeyA, Str)>>
    /\ ~root.dict_keys[1].info.optional
    /\ root.dict_keys[2].info.optional
    /\ schema[1].fields[1].ann = <<Tok("str"), Tok("|"), Tok("int")>>

\* new holds everything old holds, at every position
RECURSIVE Widened(_, _)
Widened(old, new) ==
    /\ new.name = old.name
    /\ old.allow_str => new.allow_str
    /\ old.allow_int => new.allow_int
    /\ old.allow_float => new.allow_float
    /\ old.allow_none => new.allow_none
    /\ old.allow_dict => new.allow_dict
    /\ old.allow_list => new.allow_list
    /\ old.optional => new.optional
    /\ Len(old.dict_keys) <= Len(new.dict_keys)
    /\ \A i \in DOMAIN old.dict_keys :
           /\ new.dict_keys[i].key = old.dict_keys[i].key
           /\ Widened(old.dict_keys[i].info, new.dict_keys[i].info)
    /\ Len(old.list_items) > 0 =>
           /\ Len(new.list_items) > 0
           /\ Widened(old.list_items[1], new.list_items[1])

\* C6: a successful merge only widens: flags and optional that are true stay
\* true, keys stay at their first-seen place, a list_items child stays and
\* is the child later elements are merged into.
C6_MonotonicWidening == [][err' = "none" => Widened(root, root')]_vars

\* C6's case: a second merge into a tree that already has flags, keys and a
\* list_items child
C6_Witness ==
    /\ err = "none"
    /\ merged = <<ListOf(<<Int>>), ListOf(<<Float, None>>)>>
    /\ root.list_items[1].allow_int
    /\ root.list_items[1].allow_float
    /\ root.list_items[1].allow_none

\* the same flags, keys and list_items presence at every position
RECURSIVE SameShape(_, _)
SameShape(x, y) ==
    /\ x.allow_str = y.allow_str
    /\ x.allow_int = y.allow_int
    /\ x.allow_float = y.allow_float
    /\ x.allow_none = y.allow_none
    /\ x.allow_dict = y.allow_dict
    /\ x.allow_list = y.allow_list
    /\ {x.dict_keys[i].key : i \in DOMAIN x.dict_keys}
           = {y.dict_keys[i].key : i \in DOMAIN y.dict_keys}
    /\ \A i \in DOMAIN x.dict_keys :
           HasKey(y.dict_keys, x.dict_keys[i].key)
               => SameShape(x.dict_keys[i].info,
                            y.dict_keys[KeyIndex(y.dict_keys, x.dict_keys[i].key)].info)
    /\ Len(x.list_items) = Len(y.list_items)
    /\ (Len(x.list_items) > 0 /\ Len(y.list_items) > 0)
           => SameShape(x.list_items[1], y.list_items[1])

\* the samples merged so far, merged in the opposite order into a fresh
\* descriptor of the same name
RECURSIVE MergedBackwards(_)
MergedBackwards(n) ==
    IF n > Len(merged) THEN [ti |-> TypeInfo(RootName), err |-> "none"]
    ELSE LET r == MergedBackwards(n + 1)
         IN  IF r.err # "none" THEN r ELSE parse(merged[n], r.ti)

\* C7: two samples merged in either order give the same allow_* flags, key
\* sets and list_items presence at every position.
C7_OrderIndependent ==
    (err = "none" /\ Len(merged) = 2) =>
        /\ MergedBackwards(1).err = "none"
        /\ SameShape(root, MergedBackwards(1).ti)

\* C7's case: two different objects, whose keys come out in a different
\* order when the merge order is swapped
C7_Witness ==
    /\ err = "none"
    /\ merged = <<D1(KeyCamel, Float), D2(KeyA, Int, KeyCamel, None)>>
    /\ root.dict_keys[1].key = KeyCamel
    /\ MergedBackwards(1).ti.dict_keys[1].key = KeyA
    /\ root.dict_keys[1].info.allow_float /\ root.dict_keys[1].info.allow_none

\* C8: a value of an unsupported kind fails with TypeError, at the root and
\* nested inside an object or array alike.
C8_AlwaysTypeError == pc = "raised" => err = "TypeError"

RECURSIVE StripUnderscores(_)
StripUnderscores(text) ==
    IF Len(text) > 0 /\ Head(text) = "_" THEN StripUnderscores(Tail(text))
    ELSE text

\* C9: a key that begins with underscores is emitted under the snake-cased
\* key without them, with Field(alias=<key>); no emitted field identifier
\* starts with an underscore.
C9_LeadingUnderscoreAliased ==
    /\ \A ti \in Nodes(root) :
           LET fields == generate_dict_model(ti, ti.name, <<>>).model.fields
           IN  \A i \in DOMAIN ti.dict_keys :
                   LET key == ti.dict_keys[i].key
                   IN  (Len(key) > 0 /\ key[1] = "_") =>
                           /\ fields[i].ident = to_snake_case(StripUnderscores(key))
                           /\ fields[i].alias = <<key>>
    /\ Done =>
           \A j \in DOMAIN schema : \A f \in DOMAIN schema[j].fields :
               LET ident == schema[j].fields[f].ident
               IN  Len(ident) > 0 => ident[1] # "_"

\* the descriptor positions with a non-empty dict_keys, counted
RECURSIVE ObjectPositions(_)
RECURSIVE SumObjectPositions(_, _)
SumObjectPositions(dict_keys, i) ==
    IF i > Len(dict_keys) THEN 0
    ELSE ObjectPositions(dict_keys[i].info) + SumObjectPositions(dict_keys, i + 1)

ObjectPositions(ti) ==
    (IF Len(ti.dict_keys) > 0 THEN 1 ELSE 0)
    + SumObjectPositions(ti.dict_keys, 1)
    + (IF Len(ti.list_items) > 0 THEN ObjectPositions(ti.list_items[1]) ELSE 0)

ClassIndexes == {i \in DOMAIN schema : schema[i].kind = "class"}

\* C10: the generated text defines no class name twice: one class per
\* descriptor position with keys, and different positions, different names.
C10_UniqueClassNames ==
    Done =>
        /\ \A i, j \in ClassIndexes : i # j => schema[i].name # schema[j].name
        /\ Cardinality(ClassIndexes) = ObjectPositions(root)

====
